---- MODULE Spec2Model ----
(***************************************************************************)
(* moviemail: one run of main() in src/main.rs, repeated.                  *)
(*                                                                         *)
(* A run reads the archive, asks the metadata source for the credits of    *)
(* every configured director, keeps the directing credits that have a      *)
(* release date, asks for the details of those that are not archived,      *)
(* drops or mutes some of them, notifies (print or email) and overwrites   *)
(* the archive.                                                            *)
(*                                                                         *)
(* Option<T> is modelled as a set: None is {} and Some(x) is {x}.          *)
(* Movie.title, overview and poster_path are opaque text that no branch    *)
(* of the program looks at; they are left out of the records.              *)
(***************************************************************************)
EXTENDS Integers, Sequences, FiniteSets, TLC

\* ---------------------------------------------------------------- bounds
NumDirectors == 2      \* entries of config.directors
MaxMovieId   == 2      \* movie ids the metadata source knows: 1..MaxMovieId
MaxCrew      == 1      \* longest crew list of one credits response

\* ------------------------------------------------------ program constants
MinRuntime == 60       \* `if runtime < 60`

\* ---------------------------------------------------------------- values
None == {}
Some(x) == {x}
Unwrap(o) == CHOOSE x \in o : TRUE
UnwrapOr(o, dflt) == IF o = None THEN dflt ELSE Unwrap(o)

Directors == 1..NumDirectors
Ids       == 1..MaxMovieId

\* config.directors maps a person id to a display name
DirectorName(d) == <<"name", d>>

Jobs     == {None, Some("Director"), Some("Writer")}
Dates    == {"", "2022-06-01", "2024-01-01"}
ImdbIds  == {None, Some("tt1")}
Runtimes == {None, Some(0), Some(30), Some(60), Some(90)}

\* one element of Credits.crew as the metadata source sends it: the credits
\* endpoint has no director_name and no imdb_id, so serde reads both as None
Credit == [id : Ids, job : Jobs, release_date : Dates]
Crews  == UNION {[1..n -> Credit] : n \in 0..MaxCrew}

Movie == [id : Ids, job : Jobs, release_date : Dates,
          director_name : {None} \cup {Some(DirectorName(d)) : d \in Directors},
          imdb_id : ImdbIds]

MovieDetails == [id : Ids, imdb_id : ImdbIds, runtime : Runtimes]

\* the archive file: absent, present but not readable as text (no permission,
\* not UTF-8), readable but unparseable, or a JSON list of movies
MissingFile == [kind |-> "missing", movies |-> {}]
UnreadableFile == [kind |-> "unreadable", movies |-> {}]
CorruptFile == [kind |-> "corrupt", movies |-> {}]
JsonFile(ms) == [kind |-> "json", movies |-> ms]

VARIABLES
  archiveFile,      \* the file at config.archive_path
  tmdb,             \* the metadata source
  config,           \* what read_config returned: dry_run and the iteration order of directors
  pc,               \* where main() is
  archive_set,      \* ids of the archive read at the start of the run
  credits,          \* per director: None while the lookup is in flight, else Some(Vec<Movie>)
  movies,           \* HashMap<u32, Movie>
  new_movies,       \* Vec<Movie>, order ignored
  movie_details,    \* per looked-up id: None while the lookup is in flight, else Some(MovieDetails)
  printed,          \* movies printed by the dry run branch of this run
  mailer,           \* "idle", "sent" or "failed": what mailer.send did in this run
  emailed,          \* the movies handed to create_email in this run
  wrote,            \* write_archive ran in this run
  preArchive,       \* history: the archive file as it was when the run started
  failedAt,         \* history: the step at which the run panicked, or "none"
  prevDone,         \* history: the run before this one reached the end of main()
  ops,              \* history: the reads and writes of the archive file in this run, in order
  hist              \* history across runs. hist.on = "removed": ids that earlier runs
                    \* removed in the loop. hist.on = "told": ids that earlier runs
                    \* delivered a notification for (told), and ids that an earlier run
                    \* archived and every run since discovered (kept). "off": nothing.

vars == <<archiveFile, tmdb, config, pc, archive_set, credits, movies, new_movies,
          movie_details, printed, mailer, emailed, wrote, preArchive, failedAt,
          prevDone, ops, hist>>

\* ------------------------------------------------------- metadata source
\* tmdb.stable = FALSE: the source may answer a lookup with anything, and
\* differently each time (records appear, disappear and change).
\* tmdb.stable = TRUE: the source never changes; the answer to a lookup is
\* fixed the first time it is given (crew[d], details[i] = Some(answer)).
Perms == {s \in [Directors -> Directors] : \A a, b \in Directors : s[a] = s[b] => a = b}

EmptyMap == [i \in {} |-> None]

FreshTmdb(st) == [stable |-> st,
                  crew |-> [d \in Directors |-> None],
                  details |-> [i \in Ids |-> None]]

CrewsOffered(d) == IF tmdb.crew[d] = None THEN Crews ELSE tmdb.crew[d]

\* the source answers a details lookup with the details of the movie asked
\* for: the id in the answer is the id in the request
DetailsOffered(i) ==
  IF tmdb.details[i] = None
  THEN {md \in MovieDetails : md.id = i}
  ELSE tmdb.details[i]

\* ------------------------------------------------------- pure functions
\* the crew passed on without the stamp
fetch_director_credits_NoStamp(d, crew) ==
  [k \in 1..Len(crew) |->
     [id |-> crew[k].id, job |-> crew[k].job, release_date |-> crew[k].release_date,
      director_name |-> None, imdb_id |-> None]]

\* fetch_director_credits: deserialize the crew, stamp every credit with the
\* display name of the director it was fetched for
fetch_director_credits(d, crew) ==
  [k \in 1..Len(crew) |->
     [id |-> crew[k].id, job |-> crew[k].job, release_date |-> crew[k].release_date,
      director_name |-> Some(DirectorName(d)), imdb_id |-> None]]

\* fetch_movie_details: the details of the movie asked for
fetch_movie_details(i, md) == md

\* create_message_body: per movie the link and the director; the link is the
\* imdb one when the movie has an imdb_id, else the one of the source site
create_message_body(ms) ==
  {[link |-> IF m.imdb_id # None
             THEN <<"https://www.imdb.com/title/", Unwrap(m.imdb_id)>>
             ELSE <<"https://www.themoviedb.org/movie/", m.id>>,
    director |-> Unwrap(m.director_name)] : m \in ms}

\* only the crew of the future that comes last
Flatten_OnlyLast(order, k) ==
  IF k > 1 THEN <<>> ELSE Unwrap(credits[order[NumDirectors]])

RECURSIVE Flatten(_, _)
\* join_all(...).into_iter().flatten(): the crews in the order of the futures
Flatten(order, k) ==
  IF k > NumDirectors THEN <<>>
  ELSE Unwrap(credits[order[k]]) \o Flatten(order, k + 1)

\* the filter without its second test
Eligible_AnyDate(m) == m.job = Some("Director")

\* .filter(job == Director).filter(release_date != "")
Eligible(m) == m.job = Some("Director") /\ m.release_date # ""

\* a map that keeps the first entry of an id
CollectById_FirstWins(s) ==
  [i \in {s[k].id : k \in 1..Len(s)} |->
     s[CHOOSE k \in 1..Len(s) : s[k].id = i /\ \A j \in 1..(k-1) : s[j].id # i]]

\* .map(|m| (m.id, m)).collect::<HashMap>(): a later entry replaces an earlier one
CollectById(s) ==
  [i \in {s[k].id : k \in 1..Len(s)} |->
     s[CHOOSE k \in 1..Len(s) : s[k].id = i /\ \A j \in (k+1)..Len(s) : s[j].id # i]]

Values(map) == {map[i] : i \in DOMAIN map}

\* variants of the loop body with one test lost or shifted
RemovedFromMovies_KeepsNoImdb(details) == UnwrapOr(details.runtime, 0) = 0

RemovedFromMovies_KeepsNoRuntime(details) == details.imdb_id = None

Invalid_AnyRuntime(details) == details.imdb_id = None

Invalid_SixtyIsShort(details) ==
  \/ details.imdb_id = None
  \/ UnwrapOr(details.runtime, 0) <= MinRuntime

\* the body of the enrichment loop, per movie
RemovedFromMovies(details) ==
  \/ details.imdb_id = None
  \/ UnwrapOr(details.runtime, 0) = 0

Invalid(details) ==
  \/ details.imdb_id = None
  \/ UnwrapOr(details.runtime, 0) < MinRuntime

\* ---------------------------------------------------------------- initial
RunReset ==
  /\ archive_set = {}
  /\ credits = [d \in Directors |-> None]
  /\ movies = EmptyMap
  /\ new_movies = {}
  /\ movie_details = EmptyMap
  /\ printed = {}
  /\ mailer = "idle"
  /\ emailed = {}
  /\ wrote = FALSE
  /\ failedAt = "none"
  /\ ops = <<>>

NoHist(on) == [on |-> on, removed |-> {}, told |-> {}, kept |-> {}]

Init ==
  /\ archiveFile \in {MissingFile, UnreadableFile, CorruptFile}
  /\ tmdb = FreshTmdb(FALSE)
  /\ config \in [dry_run : BOOLEAN, order : Perms]
  /\ pc = "idle"
  /\ preArchive = archiveFile
  /\ prevDone = FALSE
  /\ hist = NoHist("off")
  /\ RunReset

\* the same, with one of the histories across runs recorded
InitHist(on) ==
  /\ archiveFile \in {MissingFile, UnreadableFile, CorruptFile}
  /\ tmdb = FreshTmdb(FALSE)
  /\ config \in [dry_run : BOOLEAN, order : Perms]
  /\ pc = "idle"
  /\ preArchive = archiveFile
  /\ prevDone = FALSE
  /\ hist = NoHist(on)
  /\ RunReset

InitRemoved == InitHist("removed")

InitTold == InitHist("told")

\* what write_archive can have left in the file: directing credits with a
\* release date, stamped, one per id, imdb_id as the credits endpoint gave it
Archived == {m \in Movie : /\ m.job = Some("Director") /\ m.release_date # ""
                            /\ m.director_name # None /\ m.imdb_id = None}
Archives == {JsonFile(ms) : ms \in {a \in SUBSET Archived :
                                      \A m, n \in a : m.id = n.id => m = n}}

\* the metadata source does not change from here on, whatever was archived before
InitStable ==
  /\ archiveFile \in {MissingFile} \cup Archives
  /\ tmdb = FreshTmdb(TRUE)
  /\ config \in [dry_run : BOOLEAN, order : Perms]
  /\ pc = "idle"
  /\ preArchive = archiveFile
  /\ prevDone = FALSE
  /\ hist = NoHist("off")
  /\ RunReset

\* ---------------------------------------------------------------- actions
\* an archive that is never read
read_archive_Nothing(file) == {}

\* read_archive: every Err of read_to_string gives vec![]; called on a file
\* that read_to_string could read and serde_json could parse, or could not read
read_archive(file) == IF file.kind = "json" THEN file.movies ELSE {}

\* what the run that ends here adds to the history: the ids its loop took out
\* of movies, the ids it printed or mailed, the ids it archived
RunRemoved ==
  IF pc \in {"commit", "done"} \/ (pc = "aborted" /\ failedAt \in {"send", "write_archive"})
  THEN DOMAIN movie_details \ DOMAIN movies
  ELSE {}

RunDelivered == {m.id : m \in printed \cup (IF mailer = "sent" THEN emailed ELSE {})}

HistAtStart ==
  [on |-> hist.on,
   removed |-> IF hist.on = "removed" THEN hist.removed \cup RunRemoved ELSE hist.removed,
   told |-> IF hist.on = "told" THEN hist.told \cup RunDelivered ELSE hist.told,
   kept |-> IF hist.on = "told" /\ pc = "done"
            THEN {m.id : m \in archiveFile.movies}
            ELSE hist.kept]

\* main, lines 125-143: read the config and the archive, issue the credits lookups
Start ==
  /\ pc \in {"idle", "done", "aborted"}
  /\ config' \in [dry_run : BOOLEAN, order : Perms]
  /\ preArchive' = archiveFile
  /\ prevDone' = (pc = "done")
  /\ credits' = [d \in Directors |-> None]
  /\ movies' = EmptyMap
  /\ new_movies' = {}
  /\ movie_details' = EmptyMap
  /\ printed' = {}
  /\ mailer' = "idle"
  /\ emailed' = {}
  /\ wrote' = FALSE
  /\ ops' = <<"read">>
  /\ hist' = HistAtStart
  /\ IF archiveFile.kind = "corrupt"
     THEN /\ pc' = "aborted"
          /\ failedAt' = "read_archive"
          /\ archive_set' = {}
     ELSE /\ pc' = "credits"
          /\ failedAt' = "none"
          /\ archive_set' = {a.id : a \in read_archive(archiveFile)}
  /\ UNCHANGED <<archiveFile, tmdb>>

\* one credits lookup returns
CreditsReply(d) ==
  /\ pc = "credits"
  /\ credits[d] = None
  /\ \E crew \in CrewsOffered(d) :
       /\ credits' = [credits EXCEPT ![d] = Some(fetch_director_credits(d, crew))]
       /\ tmdb' = IF tmdb.stable THEN [tmdb EXCEPT !.crew[d] = Some(crew)] ELSE tmdb
  /\ UNCHANGED <<archiveFile, config, pc, archive_set, movies, new_movies, movie_details,
                 printed, mailer, emailed, wrote, preArchive, failedAt, prevDone, ops, hist>>

\* one credits lookup fails: .expect panics inside join_all, the run ends
CreditsFail(d) ==
  /\ pc = "credits"
  /\ credits[d] = None
  /\ pc' = "aborted"
  /\ failedAt' = "credits"
  /\ UNCHANGED <<archiveFile, tmdb, config, archive_set, credits, movies, new_movies,
                 movie_details, printed, mailer, emailed, wrote, preArchive, prevDone, ops, hist>>

\* the filter that forgets the archive
IsNew_Always(m) == TRUE

\* `.filter(|m| !archive_set.contains(&m.id))`
IsNew(m) == m.id \notin archive_set

\* a details lookup for every movie of the mapping
LookupIds_AllMovies(ms, new) == DOMAIN ms

\* `new_movies.clone().into_iter().map(|m| fetch_movie_details(m.id, ..))`:
\* the ids a details lookup is issued for
LookupIds(ms, new) == {m.id : m \in new}

\* main, lines 146-170: join the credits, filter, key by id, drop the archived
\* ones, issue the details lookups
Discover ==
  /\ pc = "credits"
  /\ \A d \in Directors : credits[d] # None
  /\ LET flat == Flatten(config.order, 1)
         kept == SelectSeq(flat, Eligible)
         ms   == CollectById(kept)
         new  == {m \in Values(ms) : IsNew(m)}
     IN /\ movies' = ms
        /\ new_movies' = new
        /\ movie_details' = [i \in LookupIds(ms, new) |-> None]
        /\ hist' = [hist EXCEPT !.kept = hist.kept \cap DOMAIN ms]
  /\ pc' = "details"
  /\ UNCHANGED <<archiveFile, tmdb, config, archive_set, credits, printed, mailer,
                 emailed, wrote, preArchive, failedAt, prevDone, ops>>

\* one details lookup returns
DetailsReply(i) ==
  /\ pc = "details"
  /\ i \in DOMAIN movie_details
  /\ movie_details[i] = None
  /\ \E md \in DetailsOffered(i) :
       /\ movie_details' = [movie_details EXCEPT ![i] = Some(fetch_movie_details(i, md))]
       /\ tmdb' = IF tmdb.stable THEN [tmdb EXCEPT !.details[i] = Some(md)] ELSE tmdb
  /\ UNCHANGED <<archiveFile, config, pc, archive_set, credits, movies, new_movies,
                 printed, mailer, emailed, wrote, preArchive, failedAt, prevDone, ops, hist>>

\* a failed details lookup taken for details that say nothing, the run goes on
DetailsFail_Swallowed(i) ==
  /\ pc = "details"
  /\ i \in DOMAIN movie_details
  /\ movie_details[i] = None
  /\ movie_details' = [movie_details EXCEPT ![i] = Some([id |-> i, imdb_id |-> None, runtime |-> None])]
  /\ failedAt' = "details"
  /\ UNCHANGED <<archiveFile, tmdb, config, pc, archive_set, credits, movies, new_movies,
                 printed, mailer, emailed, wrote, preArchive, prevDone, ops, hist>>

\* one details lookup fails
DetailsFail(i) ==
  /\ pc = "details"
  /\ i \in DOMAIN movie_details
  /\ movie_details[i] = None
  /\ pc' = "aborted"
  /\ failedAt' = "details"
  /\ UNCHANGED <<archiveFile, tmdb, config, archive_set, credits, movies, new_movies,
                 movie_details, printed, mailer, emailed, wrote, preArchive, prevDone, ops, hist>>

\* main, lines 172-209: join the details, run the loop, drop the invalid movies
Enrich ==
  /\ pc = "details"
  /\ \A i \in DOMAIN movie_details : movie_details[i] # None
  /\ LET details(i) == Unwrap(movie_details[i])
         removed == {m.id : m \in {n \in new_movies : RemovedFromMovies(details(n.id))}}
         invalid_new_movies == {m.id : m \in {n \in new_movies : Invalid(details(n.id))}}
     IN /\ movies' = [i \in DOMAIN movies \ removed |-> movies[i]]
        /\ new_movies' = {[m EXCEPT !.imdb_id = details(m.id).imdb_id] :
                             m \in {n \in new_movies : n.id \notin invalid_new_movies}}
  /\ pc' = "notify"
  /\ UNCHANGED <<archiveFile, tmdb, config, archive_set, credits, movie_details, printed,
                 mailer, emailed, wrote, preArchive, failedAt, prevDone, ops, hist>>

\* the send without the test for an empty list
NothingToSend_Never == FALSE

\* `if new_movies.len() > 0` is false
NothingToSend == new_movies = {}

\* main, lines 213-233: nothing to tell, or print each movie, or send the email
Notify ==
  /\ pc = "notify"
  /\ IF NothingToSend
     THEN /\ pc' = "commit"
          /\ UNCHANGED <<printed, mailer, emailed, failedAt>>
     ELSE IF \E m \in new_movies : m.director_name = None
     THEN /\ pc' = "aborted"
          /\ failedAt' = "unwrap"
          /\ UNCHANGED <<printed, mailer, emailed>>
     ELSE IF config.dry_run
     THEN /\ printed' = new_movies
          /\ pc' = "commit"
          /\ UNCHANGED <<mailer, emailed, failedAt>>
     ELSE /\ emailed' = new_movies
          /\ mailer' = "sent"
          /\ pc' = "commit"
          /\ UNCHANGED <<printed, failedAt>>
  /\ UNCHANGED <<archiveFile, tmdb, config, archive_set, credits, movies, new_movies,
                 movie_details, wrote, preArchive, prevDone, ops, hist>>

\* the archive written before the email is sent
NotifyFail_ArchiveFirst ==
  /\ pc = "notify"
  /\ new_movies # {}
  /\ ~config.dry_run
  /\ archiveFile' = JsonFile({movies[i] : i \in DOMAIN movies})
  /\ wrote' = TRUE
  /\ emailed' = new_movies
  /\ mailer' = "failed"
  /\ pc' = "aborted"
  /\ failedAt' = "send"
  /\ ops' = Append(ops, "write")
  /\ UNCHANGED <<tmdb, config, archive_set, credits, movies, new_movies,
                 movie_details, printed, preArchive, prevDone, hist>>

\* main, lines 228-231: mailer.send returns Err, the run panics
NotifyFail ==
  /\ pc = "notify"
  /\ ~NothingToSend
  /\ \A m \in new_movies : m.director_name # None
  /\ ~config.dry_run
  /\ emailed' = new_movies
  /\ mailer' = "failed"
  /\ pc' = "aborted"
  /\ failedAt' = "send"
  /\ UNCHANGED <<archiveFile, tmdb, config, archive_set, credits, movies, new_movies,
                 movie_details, printed, wrote, preArchive, prevDone, ops, hist>>

\* an archive merged with the one that is in the file
write_archive_KeepsOld(ms) ==
  JsonFile(ms \cup {a \in archiveFile.movies : a.id \notin {m.id : m \in ms}})

\* an archive that leaves out the movies of the notification list
write_archive_OnlyShort(ms) == JsonFile(ms \ {m \in ms : m.id \in {n.id : n \in new_movies}})

\* write_archive
write_archive(ms) == JsonFile(ms)

\* a dry run that leaves the archive alone
Commit_NotWhenDry ==
  /\ pc = "commit"
  /\ IF config.dry_run
     THEN UNCHANGED <<archiveFile, wrote, ops>>
     ELSE /\ archiveFile' = JsonFile({movies[i] : i \in DOMAIN movies})
          /\ wrote' = TRUE
          /\ ops' = Append(ops, "write")
  /\ pc' = "done"
  /\ UNCHANGED <<tmdb, config, archive_set, credits, movies, new_movies, movie_details,
                 printed, mailer, emailed, preArchive, failedAt, prevDone, hist>>

\* main, lines 235-237
Commit ==
  /\ pc = "commit"
  /\ archiveFile' = write_archive(Values(movies))
  /\ wrote' = TRUE
  /\ ops' = Append(ops, "write")
  /\ pc' = "done"
  /\ UNCHANGED <<tmdb, config, archive_set, credits, movies, new_movies, movie_details,
                 printed, mailer, emailed, preArchive, failedAt, prevDone, hist>>

\* write_archive fails: the file is untouched (it could not be opened) or
\* truncated (it was opened and the write failed)
CommitFail ==
  /\ pc = "commit"
  /\ archiveFile' \in {archiveFile, CorruptFile}
  /\ pc' = "aborted"
  /\ failedAt' = "write_archive"
  /\ ops' = Append(ops, "write")
  /\ UNCHANGED <<tmdb, config, archive_set, credits, movies, new_movies, movie_details,
                 printed, mailer, emailed, wrote, preArchive, prevDone, hist>>

Next ==
  \/ Start
  \/ \E d \in Directors : CreditsReply(d)
  \/ \E d \in Directors : CreditsFail(d)
  \/ Discover
  \/ \E i \in Ids : DetailsReply(i)
  \/ \E i \in Ids : DetailsFail(i)
  \/ Enrich
  \/ Notify
  \/ NotifyFail
  \/ Commit
  \/ CommitFail

Spec == Init /\ [][Next]_vars

SpecStable == InitStable /\ [][Next]_vars

SpecRemoved == InitRemoved /\ [][Next]_vars

SpecTold == InitTold /\ [][Next]_vars

\* ================================================================ claims
IdsOf(ms) == {m.id : m \in ms}

\* the new candidates of the run and the details each one got
Candidates == DOMAIN movie_details
DetailsOf(i) == Unwrap(movie_details[i])
RuntimeOf(i) == UnwrapOr(DetailsOf(i).runtime, 0)

\* the run is past the enrichment loop: new_movies is the notification list
Enriched ==
  \/ pc \in {"notify", "commit", "done"}
  \/ pc = "aborted" /\ failedAt \in {"unwrap", "send", "write_archive"}

\* the movies the run told somebody about, on the console or by mail
Told == printed \cup emailed

\* C1: a new candidate whose details have an external identifier and a runtime
\* of at least 60 is in the committed archive with that identifier attached,
\* and is in the notification list.
C1_ValidCandidateArchivedWithImdb ==
  pc = "done" =>
    \A i \in Candidates :
      (DetailsOf(i).imdb_id # None /\ RuntimeOf(i) >= MinRuntime) =>
        /\ \E m \in archiveFile.movies : m.id = i /\ m.imdb_id = DetailsOf(i).imdb_id
        /\ i \in IdsOf(new_movies)

\* C3: a new candidate whose details have no external identifier is neither
\* in the archive the run commits nor in its notification list, whatever its
\* runtime.
C3_NoImdbExcluded ==
  \A i \in Candidates :
    (movie_details[i] # None /\ DetailsOf(i).imdb_id = None) =>
      /\ Enriched => i \notin IdsOf(new_movies)
      /\ i \notin IdsOf(Told)
      /\ pc = "done" => i \notin IdsOf(archiveFile.movies)

C3_Witness ==
  /\ pc = "done"
  /\ \E i \in Candidates : DetailsOf(i).imdb_id = None /\ DetailsOf(i).runtime = Some(90)

\* C4: a new candidate whose runtime is absent or zero is neither in the
\* archive the run commits nor in its notification list, with or without an
\* external identifier.
C4_NoRuntimeExcluded ==
  \A i \in Candidates :
    (movie_details[i] # None /\ DetailsOf(i).runtime \in {None, Some(0)}) =>
      /\ Enriched => i \notin IdsOf(new_movies)
      /\ i \notin IdsOf(Told)
      /\ pc = "done" => i \notin IdsOf(archiveFile.movies)

C4_Witness ==
  /\ pc = "done"
  /\ \E i, j \in Candidates :
       /\ DetailsOf(i).imdb_id # None /\ DetailsOf(i).runtime = None
       /\ DetailsOf(j).imdb_id # None /\ DetailsOf(j).runtime = Some(0)

\* C5: with an external identifier, a runtime r with 0 < r < 60 keeps the
\* work in the committed archive and out of the notification list; a runtime
\* of exactly 60 is notified; without an external identifier a runtime of 30
\* is removed from the committed archive.
C5_RulesInOrder ==
  \A i \in Candidates :
    movie_details[i] # None =>
      /\ (DetailsOf(i).imdb_id # None /\ 0 < RuntimeOf(i) /\ RuntimeOf(i) < MinRuntime) =>
           /\ Enriched => i \notin IdsOf(new_movies)
           /\ i \notin IdsOf(Told)
           /\ pc = "done" => i \in IdsOf(archiveFile.movies)
      /\ (DetailsOf(i).imdb_id # None /\ RuntimeOf(i) = MinRuntime) =>
           /\ Enriched => i \in IdsOf(new_movies)
           /\ pc = "done" => i \in IdsOf(Told) /\ i \in IdsOf(archiveFile.movies)
      /\ (DetailsOf(i).imdb_id = None /\ DetailsOf(i).runtime = Some(30)) =>
           /\ Enriched => i \notin IdsOf(new_movies)
           /\ pc = "done" => i \notin IdsOf(archiveFile.movies)

C5_Witness ==
  /\ pc = "done"
  /\ \E i, j \in Candidates :
       /\ DetailsOf(i).imdb_id # None /\ DetailsOf(i).runtime = Some(30)
       /\ DetailsOf(j).imdb_id # None /\ DetailsOf(j).runtime = Some(60)
       /\ IdsOf(Told) = {j}
       /\ IdsOf(archiveFile.movies) = {i, j}

\* --------------------------------------------------------------- C2, C6-C10
DirectedAndDated(m) == m.job = Some("Director") /\ m.release_date # ""

\* the ids Discovery was given as a directing credit with a release date
DiscoveredIds ==
  {c.id : c \in {x \in UNION {{Unwrap(credits[d])[k] : k \in 1..Len(Unwrap(credits[d]))} :
                                 d \in {e \in Directors : credits[e] # None}} :
                   DirectedAndDated(x)}}

\* the run is past the join of the credits lookups
Discovered ==
  \/ pc \in {"details", "notify", "commit", "done"}
  \/ pc = "aborted" /\ failedAt \in {"details", "unwrap", "send", "write_archive"}

\* the details say: external identifier present, runtime at least 60
PassedValidity(i) ==
  /\ i \in Candidates
  /\ movie_details[i] # None
  /\ DetailsOf(i).imdb_id # None
  /\ RuntimeOf(i) >= MinRuntime

\* C2: against a metadata source that does not change, a run that follows a
\* completed run has an empty notification list, whatever the archive was
\* before the first of the two.
C2_SecondRunNotifiesNothing ==
  prevDone =>
    /\ Enriched => new_movies = {}
    /\ Told = {}
    /\ mailer = "idle"

C2_Witness ==
  /\ prevDone
  /\ pc = "done"
  /\ preArchive # MissingFile
  /\ \E i \in archive_set :
       /\ tmdb.details[i] # None
       /\ Unwrap(tmdb.details[i]).imdb_id # None
       /\ UnwrapOr(Unwrap(tmdb.details[i]).runtime, 0) >= MinRuntime

\* C6: every work in the Discovery mapping is a directing credit with a
\* release date; an id that no such credit carries gets no details lookup,
\* is not notified and is not in the committed archive.
C6_OnlyDirectedAndDated ==
  /\ \A m \in Values(movies) \cup new_movies \cup Told : DirectedAndDated(m)
  /\ Discovered =>
       (DOMAIN movies \cup Candidates \cup IdsOf(new_movies \cup Told)) \subseteq DiscoveredIds
  /\ pc = "done" =>
       \A m \in archiveFile.movies : DirectedAndDated(m) /\ m.id \in DiscoveredIds

C6_Witness ==
  /\ pc = "done"
  /\ \E d, e \in Directors :
       /\ Len(Unwrap(credits[d])) = 1 /\ Len(Unwrap(credits[e])) = 1
       /\ Unwrap(credits[d])[1].job = Some("Director")
       /\ Unwrap(credits[d])[1].release_date = ""
       /\ Unwrap(credits[d])[1].id \notin IdsOf(archiveFile.movies)
       /\ DirectedAndDated(Unwrap(credits[e])[1])
       /\ Unwrap(credits[e])[1].id \in IdsOf(Told)

\* C7 as claimed: a notified work is absent from the archive snapshot and
\* passed validity; when the snapshot holds every discovered id, nothing is
\* notified and the committed archive holds the same works as before.
C7_ArchiveSameWhenAllArchived ==
  /\ Enriched => \A m \in new_movies : m.id \notin archive_set /\ PassedValidity(m.id)
  /\ \A m \in Told : m.id \notin archive_set /\ PassedValidity(m.id)
  /\ (Discovered /\ DiscoveredIds \subseteq archive_set) =>
       /\ new_movies = {}
       /\ Told = {}
       /\ pc = "done" => IdsOf(archiveFile.movies) = IdsOf(preArchive.movies)

\* C7 amended: ... when the snapshot holds every discovered id, nothing is
\* notified and the committed archive holds exactly the discovered works, so
\* an archived work that was not discovered again is gone.
C7_ArchiveIsDiscoveredWhenAllArchived ==
  /\ Enriched => \A m \in new_movies : m.id \notin archive_set /\ PassedValidity(m.id)
  /\ \A m \in Told : m.id \notin archive_set /\ PassedValidity(m.id)
  /\ (Discovered /\ DiscoveredIds \subseteq archive_set) =>
       /\ new_movies = {}
       /\ Told = {}
       /\ pc = "done" => IdsOf(archiveFile.movies) = DiscoveredIds

C7_Witness ==
  /\ pc = "done"
  /\ DiscoveredIds # {}
  /\ DiscoveredIds \subseteq archive_set
  /\ DiscoveredIds # archive_set
  /\ IdsOf(archiveFile.movies) = DiscoveredIds

\* C8: a run that panics before the commit step (archive unreadable, credits
\* or details lookup failed, email not sent) has written nothing: the file is
\* what it was when the run started.
C8_AbortBeforeCommitWritesNothing ==
  (pc = "aborted" /\ failedAt \in {"read_archive", "credits", "details", "unwrap", "send"}) =>
    /\ ~wrote
    /\ archiveFile = preArchive

C8_Witness ==
  /\ pc = "aborted"
  /\ failedAt = "send"
  /\ preArchive.kind = "json"
  /\ preArchive.movies # {}
  /\ Values(movies) # preArchive.movies

\* C9: one failed credits or details lookup ends the run there and then:
\* nothing is printed, the transport is not invoked and no archive is
\* written, also when other lookups of the run had succeeded.
C9_LookupFailureIsFatal ==
  failedAt \in {"credits", "details"} =>
    /\ pc = "aborted"
    /\ printed = {}
    /\ emailed = {}
    /\ mailer = "idle"
    /\ ~wrote

C9_Witness ==
  /\ pc = "aborted"
  /\ failedAt = "details"
  /\ \E i \in Candidates : PassedValidity(i)

\* the run is past the notification step
NotificationStepDone ==
  \/ pc \in {"commit", "done"}
  \/ pc = "aborted" /\ failedAt \in {"send", "write_archive"}

\* C10: the transport is invoked exactly when the notification list is not
\* empty and dry mode is off; an empty list sends and prints nothing; dry
\* mode prints every accepted work and never invokes the transport.
C10_TransportIffNonEmptyAndNotDry ==
  /\ mailer # "idle" => new_movies # {} /\ ~config.dry_run /\ emailed = new_movies
  /\ printed # {} => config.dry_run /\ printed = new_movies
  /\ NotificationStepDone =>
       /\ (new_movies # {} /\ ~config.dry_run) => mailer # "idle" /\ printed = {}
       /\ (new_movies # {} /\ config.dry_run) => printed = new_movies /\ mailer = "idle"
       /\ new_movies = {} => Told = {} /\ mailer = "idle"
  /\ ~NotificationStepDone => Told = {} /\ mailer = "idle"

C10_Witness ==
  /\ pc = "done"
  /\ mailer = "sent"
  /\ emailed # {}
  /\ ~config.dry_run

\* ---------------------------------------------------------------- C11-C20
\* C11: a run that reaches the end of main() has read the archive once, at
\* its start and before any lookup, and written it once, as its last step
\* and after the notification step was done or skipped; the write happens
\* with an empty notification list and in dry mode as well.
C11_ReadOnceWriteOnceLast ==
  /\ pc \in {"credits", "details", "notify", "commit"} => ops = <<"read">> /\ ~wrote
  /\ pc = "done" =>
       /\ ops = <<"read", "write">>
       /\ wrote
       /\ archiveFile = JsonFile({movies[i] : i \in DOMAIN movies})
       /\ \/ new_movies = {} /\ Told = {} /\ mailer = "idle"
          \/ config.dry_run /\ printed = new_movies /\ mailer = "idle"
          \/ ~config.dry_run /\ mailer = "sent" /\ emailed = new_movies
  /\ pc = "aborted" =>
       /\ ops \in {<<"read">>, <<"read", "write">>}
       /\ ops = <<"read", "write">> => failedAt = "write_archive"
  /\ (\E d \in Directors : credits[d] # None) => Len(ops) >= 1 /\ ops[1] = "read"

C11_Witness ==
  /\ pc = "done"
  /\ config.dry_run
  /\ printed # {}
  /\ IdsOf(printed) \subseteq IdsOf(archiveFile.movies)
  /\ archiveFile # preArchive

\* the run got past read_archive
Started == pc # "idle" /\ failedAt # "read_archive"

\* C12: a missing archive file is an empty archive and no error; a file that
\* is there but cannot be parsed stops the run before any lookup,
\* notification or write; a missing file is the only read failure that is
\* taken for an empty archive.
C12_OnlyAbsenceIsEmptyArchive ==
  /\ (pc # "idle" /\ preArchive.kind = "missing") => Started /\ archive_set = {}
  /\ (pc # "idle" /\ preArchive.kind = "corrupt") =>
       /\ pc = "aborted"
       /\ failedAt = "read_archive"
       /\ \A d \in Directors : credits[d] = None
       /\ Candidates = {}
       /\ Told = {}
       /\ mailer = "idle"
       /\ ~wrote
       /\ archiveFile = preArchive
  /\ Started => preArchive.kind \in {"missing", "json"}

\* C13 as claimed: a work that the loop of an earlier run removed from the
\* mapping (no external identifier, or runtime absent or zero) is in no later
\* notification list, whatever its details are by then.
C13_RemovedNeverNotified ==
  \A i \in hist.removed :
    /\ Enriched => i \notin IdsOf(new_movies)
    /\ i \notin IdsOf(Told)

\* C13 amended: such a work is left out of the archive of the run that
\* removed it, so it is only deferred: a later run that discovers it while it
\* is not archived looks its details up again, and notifies it exactly if
\* those details have an external identifier and a runtime of at least 60.
C13_RemovedIsDeferred ==
  /\ pc = "done" =>
       \A i \in Candidates :
         (DetailsOf(i).imdb_id = None \/ RuntimeOf(i) = 0) => i \notin IdsOf(archiveFile.movies)
  /\ \A i \in hist.removed :
       /\ (Discovered /\ i \in DiscoveredIds /\ i \notin archive_set) => i \in Candidates
       /\ (Enriched /\ i \in Candidates) => (i \in IdsOf(new_movies) <=> PassedValidity(i))
       /\ i \in IdsOf(Told) => PassedValidity(i)

C13_Witness ==
  /\ pc = "done"
  /\ \E i \in hist.removed : i \in IdsOf(Told) /\ PassedValidity(i)

\* the stamped credits the lookups of this run returned
StampedCredits ==
  UNION {{Unwrap(credits[d])[k] : k \in 1..Len(Unwrap(credits[d]))} :
           d \in {e \in Directors : credits[e] # None}}

\* C14: the committed archive is the directing credits with a release date
\* that this run discovered, minus those its loop removed; nothing of the old
\* archive is carried over, so an archived work that this run did not
\* discover is gone, also when an earlier run had notified it.
C14_ArchiveIsThisRunsDiscovery ==
  pc = "done" =>
    /\ IdsOf(archiveFile.movies) =
         DiscoveredIds \ {i \in Candidates : DetailsOf(i).imdb_id = None \/ RuntimeOf(i) = 0}
    /\ archiveFile.movies \subseteq StampedCredits
    /\ \A a \in preArchive.movies :
         a.id \notin DiscoveredIds => a.id \notin IdsOf(archiveFile.movies)

C14_Witness ==
  /\ pc = "done"
  /\ \E i \in hist.told :
       /\ i \in archive_set
       /\ i \notin DiscoveredIds
       /\ i \notin IdsOf(archiveFile.movies)

\* the roster persons whose credits returned id i as a directing credit with a
\* release date
Holders(i) ==
  {d \in Directors :
     /\ credits[d] # None
     /\ \E k \in 1..Len(Unwrap(credits[d])) :
          Unwrap(credits[d])[k].id = i /\ DirectedAndDated(Unwrap(credits[d])[k])}

\* the one of them that comes last in the iteration order of config.directors
LastHolder(i) ==
  config.order[CHOOSE p \in 1..NumDirectors :
                 /\ config.order[p] \in Holders(i)
                 /\ \A q \in (p+1)..NumDirectors : config.order[q] \notin Holders(i)]

\* C15: the Discovery mapping has one entry per id, filed under its own id;
\* its director stamp is the display name of a roster person whose credits
\* returned the work as a directing credit with a release date, and of the
\* one processed last when there are several.
C15_LastProcessedStampWins ==
  Discovered =>
    /\ \A i \in DOMAIN movies :
         /\ movies[i].id = i
         /\ Holders(i) # {}
         /\ movies[i].director_name = Some(DirectorName(LastHolder(i)))
    /\ \A m \in new_movies \cup Told :
         Holders(m.id) # {} /\ m.director_name = Some(DirectorName(LastHolder(m.id)))
    /\ pc = "done" =>
         \A m, n \in archiveFile.movies : m.id = n.id => m = n

C15_Witness ==
  /\ pc = "done"
  /\ config.order[1] = 2
  /\ \E i \in DOMAIN movies :
       /\ Holders(i) = {1, 2}
       /\ movies[i].director_name = Some(DirectorName(1))
       /\ movies[i] \in archiveFile.movies

\* C16: one credits lookup per roster entry; no details lookup before every
\* credits lookup has returned; one details lookup per new candidate and
\* none for an archived id; no notification before every details lookup has
\* returned.
C16_FanOutJoinBarriers ==
  /\ Started => DOMAIN credits = Directors
  /\ ~Discovered => Candidates = {}
  /\ Discovered =>
       /\ \A d \in Directors : credits[d] # None
       /\ Candidates = DiscoveredIds \ archive_set
  /\ (pc \in {"notify", "commit", "done"} \/ Told # {} \/ mailer # "idle") =>
       \A i \in Candidates : movie_details[i] # None

C16_Witness ==
  /\ pc = "details"
  /\ \E i \in Candidates : movie_details[i] = None
  /\ \E j \in DiscoveredIds : j \in archive_set

\* the ids this run delivered a notification for
DeliveredNow == IdsOf(printed) \cup (IF mailer = "sent" THEN IdsOf(emailed) ELSE {})

Year(date) ==
  CASE date = "2022-06-01" -> 2022
    [] date = "2024-01-01" -> 2024
    [] OTHER -> 0

\* read generously: 2023 itself would pass
LaterThan2023(date) == Year(date) >= 2023

\* C18: after Discovery's filter the mapping holds only directing credits
\* released later than 2023: no earlier work is a new candidate, is notified
\* or is committed to the archive.
C18_OnlyLaterThan2023 ==
  /\ \A m \in Values(movies) \cup new_movies \cup Told :
       m.job = Some("Director") /\ LaterThan2023(m.release_date)
  /\ pc = "done" => \A m \in archiveFile.movies : LaterThan2023(m.release_date)

\* C19: every work of the notification list has a director name and an
\* external identifier: rendering does not panic on a missing name, every
\* rendered link is the imdb one, the source-site link is never rendered.
C19_NotifiedHaveNameAndImdb ==
  /\ Enriched => \A m \in new_movies : m.director_name # None /\ m.imdb_id # None
  /\ \A m \in Told : m.director_name # None /\ m.imdb_id # None
  /\ failedAt # "unwrap"
  /\ \A line \in create_message_body(emailed) :
       /\ line.link[1] = "https://www.imdb.com/title/"
       /\ \E d \in Directors : line.director = DirectorName(d)

C19_Witness ==
  /\ pc = "done"
  /\ mailer = "sent"
  /\ \E line \in create_message_body(emailed) :
       line.link = <<"https://www.imdb.com/title/", "tt1">>

\* the ids of the archive as the run found it
ArchivedBefore == IF preArchive.kind = "json" THEN IdsOf(preArchive.movies) ELSE {}

\* the ids the responses alone make new: given by some roster person as a
\* directing credit with a release date, and not in the archive before the run
NewByResponses == DiscoveredIds \ ArchivedBefore

\* C20: the ids of the notification list and the ids of the committed archive
\* are a function of the archive before the run, the roster as a set and the
\* responses per person and per work; neither the order of config.directors
\* nor the order in which lookups complete enters it.
C20_IdsIndependentOfOrder ==
  /\ Enriched =>
       /\ Candidates = NewByResponses
       /\ IdsOf(new_movies) =
            {i \in NewByResponses :
               DetailsOf(i).imdb_id # None /\ RuntimeOf(i) >= MinRuntime}
  /\ pc = "done" =>
       IdsOf(archiveFile.movies) =
         (DiscoveredIds \cap ArchivedBefore) \cup
         {i \in NewByResponses : DetailsOf(i).imdb_id # None /\ RuntimeOf(i) # 0}

C20_Witness ==
  /\ pc = "done"
  /\ config.order[1] = 2
  /\ ArchivedBefore # {}
  /\ Holders(1) = {1}
  /\ Holders(2) = {2}
  /\ IdsOf(new_movies) # {}
  /\ IdsOf(archiveFile.movies) = Ids

====
